---------------------------- MODULE Spec2Model ----------------------------
(*************************************************************************)
(* A model of the DS1307 real-time-clock driver (src/src/ds1307.c).      *)
(*                                                                       *)
(* The chip is a byte-addressed register file: registers 0..7 hold the   *)
(* time and the control byte, addresses 8..63 the 56 bytes of RAM.  The  *)
(* driver reaches it through two bus calls, a combined write/read        *)
(* (i2c_master_transmit_receive) and a write (i2c_master_transmit).      *)
(* Every public function of the driver is one action; the bus outcome,   *)
(* the handle and the pointers it is given are inputs of the action.     *)
(*************************************************************************)
EXTENDS Integers, Sequences, FiniteSets, TLC

VARIABLES
    regs,           \* chip registers 0x00..0x07, a function 0..7 -> 0..255
    ram,            \* chip RAM 0x08..0x3F, a function 0..55 -> 0..255
    alive,          \* TRUE while the handle returned by ds1307_init is not freed
    tm_year_start,  \* struct ds1307_t.tm_year_start of the handle
    call,           \* the last call: its name, arguments, return code and output
    bus,            \* the bus transactions the last call issued, in order
    tasks           \* the calls of concurrent callers that are under way

vars == <<regs, ram, alive, tm_year_start, call, bus, tasks>>

-----------------------------------------------------------------------------
(* Register map and bit masks: the #defines of ds1307.c and ds1307.h.     *)

DS1307_RAM_SIZE == 56
BUF_SIZE == 7
BUF_HOUR_SIZE == 3
SEC_REG == 0
SEC_OFFSET == 0
SEC_CH_BIT == 128
SEC_MASK == 127
MIN_OFFSET == 1
HOUR_OFFSET == 2
HOUR_12_BIT == 64
HOUR_PM_BIT == 32
HOUR_12_MASK == 31
DAY_OFFSET == 3
DATE_OFFSET == 4
MON_OFFSET == 5
YEAR_OFFSET == 6
CTRL_REG == 7
CTRL_OUT_BIT == 128
CTRL_SQWE_BIT == 16
CTRL_RS_MASK == 3
RAM_REG == 8

(* ds1307_rate_select_t                                                   *)
DS1307_RATE_SELECT_1HZ == 0
DS1307_RATE_SELECT_4096HZ == 1
DS1307_RATE_SELECT_8192HZ == 2
DS1307_RATE_SELECT_32768HZ == 3

(* esp_err_t codes the driver returns or passes through.                  *)
ESP_OK == "ESP_OK"
ESP_ERR_NO_MEM == "ESP_ERR_NO_MEM"
ESP_ERR_INVALID_ARG == "ESP_ERR_INVALID_ARG"

-----------------------------------------------------------------------------
(* C arithmetic on uint8_t and int.                                       *)

Byte == 0..255

\* conversion of an int to uint8_t
U8(x) == x % 256

\* a & b on bytes, bit by bit
AndBits(a, b) ==
    (a % 2) * (b % 2)
    + 2 * ((a \div 2) % 2) * ((b \div 2) % 2)
    + 4 * ((a \div 4) % 2) * ((b \div 4) % 2)
    + 8 * ((a \div 8) % 2) * ((b \div 8) % 2)
    + 16 * ((a \div 16) % 2) * ((b \div 16) % 2)
    + 32 * ((a \div 32) % 2) * ((b \div 32) % 2)
    + 64 * ((a \div 64) % 2) * ((b \div 64) % 2)
    + 128 * ((a \div 128) % 2) * ((b \div 128) % 2)

\* the table of a & b, computed once
AndTable == [a \in Byte |-> [b \in Byte |-> AndBits(a, b)]]

\* a & b on the low eight bits
And8(a, b) == AndTable[a][b]

\* a | b on the low eight bits
Or8(a, b) == a + b - And8(a, b)

\* (uint8_t)~a
Not8(a) == 255 - a

\* a % b of C for b > 0: the remainder has the sign of a
CRem(a, b) == IF a >= 0 THEN a % b ELSE 0 - ((0 - a) % b)

\* static uint8_t int2bcd(uint8_t x)
int2bcd(x) == U8((x \div 10) * 16 + (x % 10))

\* static uint8_t bcd2int(uint8_t x)
bcd2int(x) == U8((x \div 16) * 10 + And8(x, 15))

\* from_12_hour without `if (hour == 12) hour = 0`: 12 AM decodes to 12
from_12_hour_TwelveStays(hour_bcd) ==
    LET h0 == bcd2int(And8(hour_bcd, HOUR_12_MASK))
    IN  IF And8(hour_bcd, HOUR_PM_BIT) # 0 THEN U8(h0 + 12) ELSE h0

\* static uint8_t from_12_hour(uint8_t hour_bcd)
from_12_hour(hour_bcd) ==
    LET h0 == bcd2int(And8(hour_bcd, HOUR_12_MASK))
        h1 == IF h0 = 12 THEN 0 ELSE h0
    IN  IF And8(hour_bcd, HOUR_PM_BIT) # 0 THEN U8(h1 + 12) ELSE h1

\* to_12_hour with `hour > 12` for `hour >= 12`: noon is taken for an AM hour
to_12_hour_NoonIsAm(hour) ==
    LET pm == IF hour > 12 THEN HOUR_PM_BIT ELSE 0
        h0 == IF hour > 12 THEN hour - 12 ELSE hour
        h1 == IF h0 = 0 THEN 12 ELSE h0
    IN  Or8(Or8(And8(int2bcd(h1), HOUR_12_MASK), HOUR_12_BIT), pm)

\* static uint8_t to_12_hour(uint8_t hour)
to_12_hour(hour) ==
    LET pm == IF hour >= 12 THEN HOUR_PM_BIT ELSE 0
        h0 == IF hour >= 12 THEN hour - 12 ELSE hour
        h1 == IF h0 = 0 THEN 12 ELSE h0
    IN  Or8(Or8(And8(int2bcd(h1), HOUR_12_MASK), HOUR_12_BIT), pm)


-----------------------------------------------------------------------------
(* The chip behind the bus.                                               *)

\* the byte at chip address a (0x00..0x3F)
Mem(a) == IF a < RAM_REG THEN regs[a] ELSE ram[a - RAM_REG]

\* the n bytes a read returns after the register pointer is set to reg; the
\* pointer of the chip wraps from 0x3F to 0x00
BusRead(reg, n) == [i \in 0..(n - 1) |-> Mem((reg + i) % 64)]

\* the byte a write of `bytes` starting at reg leaves at address a
Written(reg, bytes, a, old) ==
    LET i == (a - reg) % 64
    IN  IF i < Len(bytes) THEN bytes[i + 1] ELSE old

\* the registers and the RAM after a successful write of `bytes` at reg
RegsAfterWrite(reg, bytes) ==
    [a \in 0..7 |-> Written(reg, bytes, a, regs[a])]

RamAfterWrite(reg, bytes) ==
    IF reg + Len(bytes) <= RAM_REG
    THEN ram    \* the write ends below the RAM
    ELSE [a \in 0..(DS1307_RAM_SIZE - 1) |->
             Written(reg, bytes, a + RAM_REG, ram[a])]

\* one entry of the transaction log
Rd(reg, n, res) == [kind |-> "read", reg |-> reg, len |-> n, res |-> res]
Wr(reg, n, res) == [kind |-> "write", reg |-> reg, len |-> n, res |-> res]

NoVal == [none |-> TRUE]

\* the call returns: nothing was written to the chip
Return(op, arg, ret, out, log) ==
    /\ call' = [op |-> op, arg |-> arg, ret |-> ret, out |-> out]
    /\ bus' = log
    /\ UNCHANGED <<regs, ram, alive, tm_year_start, tasks>>

\* the call ends with a write of `bytes` at reg whose outcome is wr
ReturnWrite(op, arg, log, reg, bytes, wr) ==
    /\ call' = [op |-> op, arg |-> arg, ret |-> wr, out |-> NoVal]
    /\ bus' = Append(log, Wr(reg, Len(bytes), wr))
    /\ regs' = IF wr = ESP_OK THEN RegsAfterWrite(reg, bytes) ELSE regs
    /\ ram' = IF wr = ESP_OK THEN RamAfterWrite(reg, bytes) ELSE ram
    /\ UNCHANGED <<alive, tm_year_start, tasks>>

-----------------------------------------------------------------------------
(* Calendar time: ds1307_get_datetime and ds1307_set_datetime.            *)

\* the struct tm that ds1307_get_datetime fills from the seven bytes read
DecodeTm(buf, year_start) ==
    [tm_sec  |-> bcd2int(And8(buf[SEC_OFFSET], SEC_MASK)),
     tm_min  |-> bcd2int(buf[MIN_OFFSET]),
     tm_hour |-> IF And8(buf[HOUR_OFFSET], HOUR_12_BIT) # 0
                 THEN from_12_hour(buf[HOUR_OFFSET])
                 ELSE bcd2int(buf[HOUR_OFFSET]),
     tm_wday |-> bcd2int(buf[DAY_OFFSET]) - 1,
     tm_mday |-> bcd2int(buf[DATE_OFFSET]),
     tm_mon  |-> bcd2int(buf[MON_OFFSET]),
     tm_year |-> bcd2int(buf[YEAR_OFFSET]) + year_start]

\* EncodeTm without `| ch`: the seconds byte is written with CH clear
EncodeTmDropsCh(tm, buf) ==
    LET hour_12 == And8(buf[HOUR_OFFSET], HOUR_12_BIT)
        y0 == CRem(tm.tm_year, 100)
        year == IF y0 < 0 THEN y0 + 100 ELSE y0
    IN  << And8(int2bcd(U8(tm.tm_sec)), SEC_MASK),
           int2bcd(U8(tm.tm_min)),
           IF hour_12 # 0 THEN to_12_hour(U8(tm.tm_hour))
                          ELSE int2bcd(U8(tm.tm_hour)),
           int2bcd(U8(tm.tm_wday + 1)),
           int2bcd(U8(tm.tm_mday)),
           int2bcd(U8(tm.tm_mon + 1)),
           int2bcd(U8(year)) >>

\* EncodeTm without `year += 100`: a negative remainder goes to int2bcd
EncodeTmNoYearWrap(tm, buf) ==
    LET ch == And8(buf[SEC_OFFSET], SEC_CH_BIT)
        hour_12 == And8(buf[HOUR_OFFSET], HOUR_12_BIT)
        year == CRem(tm.tm_year, 100)
    IN  << Or8(And8(int2bcd(U8(tm.tm_sec)), SEC_MASK), ch),
           int2bcd(U8(tm.tm_min)),
           IF hour_12 # 0 THEN to_12_hour(U8(tm.tm_hour))
                          ELSE int2bcd(U8(tm.tm_hour)),
           int2bcd(U8(tm.tm_wday + 1)),
           int2bcd(U8(tm.tm_mday)),
           int2bcd(U8(tm.tm_mon + 1)),
           int2bcd(U8(year)) >>

\* the seven register bytes ds1307_set_datetime writes for tm, given the
\* three bytes it read back
EncodeTm(tm, buf) ==
    LET ch == And8(buf[SEC_OFFSET], SEC_CH_BIT)
        hour_12 == And8(buf[HOUR_OFFSET], HOUR_12_BIT)
        y0 == CRem(tm.tm_year, 100)
        year == IF y0 < 0 THEN y0 + 100 ELSE y0
    IN  << Or8(And8(int2bcd(U8(tm.tm_sec)), SEC_MASK), ch),
           int2bcd(U8(tm.tm_min)),
           IF hour_12 # 0 THEN to_12_hour(U8(tm.tm_hour))
                          ELSE int2bcd(U8(tm.tm_hour)),
           int2bcd(U8(tm.tm_wday + 1)),
           int2bcd(U8(tm.tm_mday)),
           int2bcd(U8(tm.tm_mon + 1)),
           int2bcd(U8(year)) >>

\* ds1307_get_datetime(h, p): h is a non-null handle, p a non-null tm,
\* rd the outcome of the bus read
GetDatetime(h, p, rd) ==
    LET arg == [h |-> h, p |-> p]
    IN  /\ h => alive
        /\ IF ~h \/ ~p
           THEN Return("get_datetime", arg, ESP_ERR_NO_MEM, NoVal, <<>>)
           ELSE IF rd # ESP_OK
           THEN Return("get_datetime", arg, rd, NoVal,
                       <<Rd(SEC_REG, BUF_SIZE, rd)>>)
           ELSE Return("get_datetime", arg, ESP_OK,
                       DecodeTm(BusRead(SEC_REG, BUF_SIZE), tm_year_start),
                       <<Rd(SEC_REG, BUF_SIZE, rd)>>)

\* SetDatetime without ESP_RETURN_ON_ERROR on the read: the write follows a
\* failed read, built from what the chip holds
SetDatetimeIgnoresReadError(h, p, tm, rd, wr) ==
    LET arg == [h |-> h, p |-> p, tm |-> tm]
        log == <<Rd(SEC_REG, BUF_HOUR_SIZE, rd)>>
    IN  /\ h => alive
        /\ IF ~h \/ ~p
           THEN Return("set_datetime", arg, ESP_ERR_NO_MEM, NoVal, <<>>)
           ELSE ReturnWrite("set_datetime", arg, log, SEC_REG,
                            EncodeTm(tm, BusRead(SEC_REG, BUF_HOUR_SIZE)), wr)

\* ds1307_set_datetime(h, tm): p is FALSE when tm is NULL; rd and wr are the
\* outcomes of the bus read and the bus write
SetDatetime(h, p, tm, rd, wr) ==
    LET arg == [h |-> h, p |-> p, tm |-> tm]
        log == <<Rd(SEC_REG, BUF_HOUR_SIZE, rd)>>
    IN  /\ h => alive
        /\ IF ~h \/ ~p
           THEN Return("set_datetime", arg, ESP_ERR_NO_MEM, NoVal, <<>>)
           ELSE IF rd # ESP_OK
           THEN Return("set_datetime", arg, rd, NoVal, log)
           ELSE ReturnWrite("set_datetime", arg, log, SEC_REG,
                            EncodeTm(tm, BusRead(SEC_REG, BUF_HOUR_SIZE)), wr)

-----------------------------------------------------------------------------
(* Raw register data: ds1307_get_data and ds1307_set_data.                *)

\* the ds1307_data_t that ds1307_get_data fills from the seven bytes read
DecodeData(buf) ==
    LET h12 == And8(buf[HOUR_OFFSET], HOUR_12_BIT) # 0
    IN  [second  |-> And8(buf[SEC_OFFSET], SEC_MASK),
         minute  |-> buf[MIN_OFFSET],
         hour    |-> IF h12 THEN And8(buf[HOUR_OFFSET], HOUR_12_MASK)
                            ELSE buf[HOUR_OFFSET],
         day     |-> buf[DAY_OFFSET],
         date    |-> buf[DATE_OFFSET],
         month   |-> buf[MON_OFFSET],
         year    |-> buf[YEAR_OFFSET],
         hour_12 |-> IF h12 THEN 1 ELSE 0,
         hour_pm |-> IF h12 /\ And8(buf[HOUR_OFFSET], HOUR_PM_BIT) # 0
                     THEN 1 ELSE 0]

\* EncodeData with the month masked to six bits (0x3f) instead of five
EncodeDataWideMonth(data, buf) ==
    LET ch == And8(buf[SEC_OFFSET], SEC_CH_BIT)
    IN  << Or8(And8(data.second, SEC_MASK), ch),
           And8(data.minute, 127),
           IF data.hour_12 # 0
           THEN Or8(Or8(And8(data.hour, HOUR_12_MASK), HOUR_12_BIT),
                    IF data.hour_pm # 0 THEN HOUR_PM_BIT ELSE 0)
           ELSE And8(data.hour, 63),
           And8(data.day, 7),
           And8(data.date, 63),
           And8(data.month, 63),
           data.year >>

\* the seven register bytes ds1307_set_data writes for data, given the byte
\* it read back
EncodeData(data, buf) ==
    LET ch == And8(buf[SEC_OFFSET], SEC_CH_BIT)
    IN  << Or8(And8(data.second, SEC_MASK), ch),
           And8(data.minute, 127),
           IF data.hour_12 # 0
           THEN Or8(Or8(And8(data.hour, HOUR_12_MASK), HOUR_12_BIT),
                    IF data.hour_pm # 0 THEN HOUR_PM_BIT ELSE 0)
           ELSE And8(data.hour, 63),
           And8(data.day, 7),
           And8(data.date, 63),
           And8(data.month, 31),
           data.year >>

\* ds1307_get_data(h, p)
GetData(h, p, rd) ==
    LET arg == [h |-> h, p |-> p]
    IN  /\ h => alive
        /\ IF ~h \/ ~p
           THEN Return("get_data", arg, ESP_ERR_NO_MEM, NoVal, <<>>)
           ELSE IF rd # ESP_OK
           THEN Return("get_data", arg, rd, NoVal, <<Rd(SEC_REG, BUF_SIZE, rd)>>)
           ELSE Return("get_data", arg, ESP_OK,
                       DecodeData(BusRead(SEC_REG, BUF_SIZE)),
                       <<Rd(SEC_REG, BUF_SIZE, rd)>>)

\* ds1307_set_data(h, data): p is FALSE when data is NULL
SetData(h, p, data, rd, wr) ==
    LET arg == [h |-> h, p |-> p, data |-> data]
        log == <<Rd(SEC_REG, 1, rd)>>
    IN  /\ h => alive
        /\ IF ~h \/ ~p
           THEN Return("set_data", arg, ESP_ERR_NO_MEM, NoVal, <<>>)
           ELSE IF rd # ESP_OK
           THEN Return("set_data", arg, rd, NoVal, log)
           ELSE ReturnWrite("set_data", arg, log, SEC_REG,
                            EncodeData(data, BusRead(SEC_REG, 1)), wr)

-----------------------------------------------------------------------------
(* 12/24-hour mode: ds1307_get_12_hour and ds1307_set_12_hour.            *)

\* the hours byte ds1307_set_12_hour writes when it changes the mode
ConvertHour(hour, mode) ==
    IF mode THEN to_12_hour(bcd2int(hour))
            ELSE int2bcd(from_12_hour(hour))

\* ds1307_get_12_hour(h, p)
Get12Hour(h, p, rd) ==
    LET arg == [h |-> h, p |-> p]
        reg == SEC_REG + HOUR_OFFSET
        log == <<Rd(reg, 1, rd)>>
    IN  /\ h => alive
        /\ IF ~h \/ ~p
           THEN Return("get_12_hour", arg, ESP_ERR_NO_MEM, NoVal, <<>>)
           ELSE IF rd # ESP_OK
           THEN Return("get_12_hour", arg, rd, NoVal, log)
           ELSE Return("get_12_hour", arg, ESP_OK,
                       And8(BusRead(reg, 1)[0], HOUR_12_BIT) # 0, log)

\* ds1307_set_12_hour(h, mode)
Set12Hour(h, mode, rd, wr) ==
    LET arg == [h |-> h, v |-> mode]
        reg == SEC_REG + HOUR_OFFSET
        log == <<Rd(reg, 1, rd)>>
        hour == BusRead(reg, 1)[0]
    IN  /\ h => alive
        /\ IF ~h
           THEN Return("set_12_hour", arg, ESP_ERR_NO_MEM, NoVal, <<>>)
           ELSE IF rd # ESP_OK
           THEN Return("set_12_hour", arg, rd, NoVal, log)
           ELSE IF And8(hour, HOUR_12_BIT) = (IF mode THEN HOUR_12_BIT ELSE 0)
           THEN Return("set_12_hour", arg, ESP_OK, NoVal, log)
           ELSE ReturnWrite("set_12_hour", arg, log, reg,
                            <<ConvertHour(hour, mode)>>, wr)

-----------------------------------------------------------------------------
(* Single-field accessors: set_reg and the functions built on it.         *)

\* SetRegSkips with the mask not inverted: `(origin & mask) == value`
SetRegSkipsPlainMask(origin, mask, value) == And8(origin, mask) = value

\* set_reg skips the write when this holds of the byte read
SetRegSkips(origin, mask, value) == And8(origin, Not8(mask)) = value

\* SetRegByte without `origin & mask`: the other bits are written as zero
SetRegByteValueOnly(origin, mask, value) == value

\* SetRegByte with `origin | value`: the field is never cleared
SetRegByteOrsIn(origin, mask, value) == Or8(origin, value)

\* SetRegByte with the mask inverted: `(origin & ~mask) | value`
SetRegByteInvertedMask(origin, mask, value) ==
    Or8(And8(origin, Not8(mask)), value)

\* the byte set_reg writes back
SetRegByte(origin, mask, value) == Or8(And8(origin, mask), value)

\* static esp_err_t set_reg(h, reg, mask, value), called as `op`
set_reg(op, arg, h, reg, mask, value, rd, wr) ==
    LET log == <<Rd(reg, 1, rd)>>
        origin == BusRead(reg, 1)[0]
    IN  /\ h => alive
        /\ IF ~h
           THEN Return(op, arg, ESP_ERR_NO_MEM, NoVal, <<>>)
           ELSE IF rd # ESP_OK
           THEN Return(op, arg, rd, NoVal, log)
           ELSE IF SetRegSkips(origin, mask, value)
           THEN Return(op, arg, ESP_OK, NoVal, log)
           ELSE ReturnWrite(op, arg, log, reg,
                            <<SetRegByte(origin, mask, value)>>, wr)

\* the getters of one flag: read one register, return f(value)
get_reg(op, h, p, reg, rd, out) ==
    LET arg == [h |-> h, p |-> p]
        log == <<Rd(reg, 1, rd)>>
    IN  /\ h => alive
        /\ IF ~h \/ ~p
           THEN Return(op, arg, ESP_ERR_NO_MEM, NoVal, <<>>)
           ELSE IF rd # ESP_OK
           THEN Return(op, arg, rd, NoVal, log)
           ELSE Return(op, arg, ESP_OK, out, log)

\* ds1307_get_halt(h, p)
GetHalt(h, p, rd) ==
    get_reg("get_halt", h, p, SEC_REG, rd,
            And8(BusRead(SEC_REG, 1)[0], SEC_CH_BIT) # 0)

\* ds1307_set_halt(h, halt)
SetHalt(h, halt, rd, wr) ==
    set_reg("set_halt", [h |-> h, v |-> halt], h, SEC_REG,
            Not8(SEC_CH_BIT), IF halt THEN SEC_CH_BIT ELSE 0, rd, wr)

\* ds1307_get_output(h, p)
GetOutput(h, p, rd) ==
    get_reg("get_output", h, p, CTRL_REG, rd,
            And8(BusRead(CTRL_REG, 1)[0], CTRL_OUT_BIT) # 0)

\* ds1307_set_output(h, output)
SetOutput(h, output, rd, wr) ==
    set_reg("set_output", [h |-> h, v |-> output], h, CTRL_REG,
            Not8(CTRL_OUT_BIT), IF output THEN CTRL_OUT_BIT ELSE 0, rd, wr)

\* ds1307_get_square_wave_enable(h, p)
GetSquareWaveEnable(h, p, rd) ==
    get_reg("get_square_wave_enable", h, p, CTRL_REG, rd,
            And8(BusRead(CTRL_REG, 1)[0], CTRL_SQWE_BIT) # 0)

\* ds1307_set_square_wave_enable(h, enable)
SetSquareWaveEnable(h, enable, rd, wr) ==
    set_reg("set_square_wave_enable", [h |-> h, v |-> enable], h, CTRL_REG,
            Not8(CTRL_SQWE_BIT), IF enable THEN CTRL_SQWE_BIT ELSE 0, rd, wr)

\* ds1307_get_rate_select(h, p)
GetRateSelect(h, p, rd) ==
    get_reg("get_rate_select", h, p, CTRL_REG, rd,
            And8(BusRead(CTRL_REG, 1)[0], CTRL_RS_MASK))

\* ds1307_set_rate_select(h, rs)
SetRateSelect(h, rs, rd, wr) ==
    set_reg("set_rate_select", [h |-> h, v |-> rs], h, CTRL_REG,
            Not8(CTRL_RS_MASK), And8(rs, CTRL_RS_MASK), rd, wr)

-----------------------------------------------------------------------------
(* RAM: ds1307_get_ram and ds1307_set_ram.                                *)

\* RamArgsOk with the sum taken in uint8_t: 200 + 56 wraps to 0
RamArgsOkWraps(offset, size) == U8(offset + size) <= DS1307_RAM_SIZE

\* the argument check of both: offset + size in int arithmetic
RamArgsOk(offset, size) == offset + size <= DS1307_RAM_SIZE

\* ds1307_get_ram(h, offset, data, size): p is FALSE when data is NULL
GetRam(h, p, offset, size, rd) ==
    LET arg == [h |-> h, p |-> p, offset |-> offset, size |-> size]
        reg == U8(offset + RAM_REG)
        log == <<Rd(reg, size, rd)>>
    IN  /\ h => alive
        /\ IF ~h \/ ~p
           THEN Return("get_ram", arg, ESP_ERR_NO_MEM, NoVal, <<>>)
           ELSE IF ~RamArgsOk(offset, size)
           THEN Return("get_ram", arg, ESP_ERR_INVALID_ARG, NoVal, <<>>)
           ELSE IF rd # ESP_OK
           THEN Return("get_ram", arg, rd, NoVal, log)
           ELSE Return("get_ram", arg, ESP_OK,
                       [i \in 1..size |-> BusRead(reg, size)[i - 1]], log)

\* SetRam with `buf[0] = offset`: the RAM base is not added
SetRamNoBase(h, p, offset, data, size, wr) ==
    LET arg == [h |-> h, p |-> p, offset |-> offset, data |-> data,
                size |-> size]
    IN  /\ h => alive
        /\ IF ~h \/ ~p
           THEN Return("set_ram", arg, ESP_ERR_NO_MEM, NoVal, <<>>)
           ELSE IF ~RamArgsOk(offset, size)
           THEN Return("set_ram", arg, ESP_ERR_INVALID_ARG, NoVal, <<>>)
           ELSE ReturnWrite("set_ram", arg, <<>>, offset,
                            SubSeq(data, 1, size), wr)

\* ds1307_set_ram(h, offset, data, size): data holds the size bytes given
SetRam(h, p, offset, data, size, wr) ==
    LET arg == [h |-> h, p |-> p, offset |-> offset, data |-> data,
                size |-> size]
    IN  /\ h => alive
        /\ IF ~h \/ ~p
           THEN Return("set_ram", arg, ESP_ERR_NO_MEM, NoVal, <<>>)
           ELSE IF ~RamArgsOk(offset, size)
           THEN Return("set_ram", arg, ESP_ERR_INVALID_ARG, NoVal, <<>>)
           ELSE ReturnWrite("set_ram", arg, <<>>, U8(offset + RAM_REG),
                            SubSeq(data, 1, size), wr)

-----------------------------------------------------------------------------
(* Handle lifecycle: ds1307_init and ds1307_deinit.                       *)

\* YearStart without `century++`: a negative century is taken as it is
YearStartKeepsNegative(century) ==
    LET c == IF century = 0 THEN 21 ELSE century
    IN  (c - 20) * 100

\* tm_year_start as ds1307_init computes it from the configured century
YearStart(century) ==
    LET c == IF century = 0 THEN 21
             ELSE IF century < 0 THEN century + 1 ELSE century
    IN  (c - 20) * 100

\* ds1307_init(bus, config, &handle) once the previous handle is gone: b and
\* c are FALSE for a NULL bus or config, mem is FALSE when calloc fails, add
\* is the outcome of i2c_master_bus_add_device
Ds1307Init(b, c, century, mem, add) ==
    LET arg == [b |-> b, c |-> c, century |-> century]
        ret == IF ~b \/ ~c THEN ESP_ERR_INVALID_ARG
               ELSE IF ~mem THEN ESP_ERR_NO_MEM ELSE add
    IN  /\ ~alive
        /\ call' = [op |-> "init", arg |-> arg, ret |-> ret, out |-> NoVal]
        /\ bus' = <<>>
        /\ alive' = (ret = ESP_OK)
        /\ tm_year_start' = IF ret = ESP_OK THEN YearStart(century)
                                            ELSE tm_year_start
        /\ UNCHANGED <<regs, ram, tasks>>

\* ds1307_deinit(h): rm is the outcome of i2c_master_bus_rm_device
Ds1307Deinit(h, rm) ==
    LET arg == [h |-> h]
        ret == IF ~h THEN ESP_ERR_NO_MEM ELSE rm
    IN  /\ h => alive
        /\ call' = [op |-> "deinit", arg |-> arg, ret |-> ret, out |-> NoVal]
        /\ bus' = <<>>
        /\ alive' = (alive /\ ~(h /\ ret = ESP_OK))
        /\ UNCHANGED <<regs, ram, tm_year_start, tasks>>

-----------------------------------------------------------------------------
(* Inputs and initial chip contents.                                      *)

\* the return codes a failing bus call may hand back
BusErrors == {"ESP_ERR_INVALID_STATE"}
BusOutcomes == {ESP_OK} \cup BusErrors

\* the BCD byte of n in 0..99 as the chip stores it
Bcd(n) == 16 * (n \div 10) + (n % 10)

\* the hours registers that hold a valid hour, numbered 0..47: 24-hour
\* 00..23, then 12-hour 01..12 AM, then 12-hour 01..12 PM
ValidHour(i) ==
    IF i < 24 THEN Bcd(i)
    ELSE IF i < 36 THEN 64 + Bcd(i - 23)
    ELSE 64 + 32 + Bcd(i - 35)

\* the k-th chip image holding valid BCD fields, with the CH bit ch: as k
\* runs over 0..99 every register takes every value of its range
\* (seconds and minutes 00..59, the 48 valid hours bytes, day 1..7,
\* date 01..31, month 01..12, year 00..99)
ImageOf(k, ch, ctrl) ==
    [a \in 0..7 |->
        CASE a = 0 -> 128 * ch + Bcd(k % 60)
          [] a = 1 -> Bcd((7 * k) % 60)
          [] a = 2 -> ValidHour(k % 48)
          [] a = 3 -> 1 + (k % 7)
          [] a = 4 -> Bcd(1 + (k % 31))
          [] a = 5 -> Bcd(1 + (k % 12))
          [] a = 6 -> Bcd(k % 100)
          [] a = 7 -> ctrl]

\* the RAM as the model starts it: byte a holds a
RamInit == [a \in 0..(DS1307_RAM_SIZE - 1) |-> a]

\* the callers that may use the handle at the same time, and their state
\* while none of them has called
Callers == {1, 2}
NoTasks == [c \in Callers |-> [pc |-> "idle", overlapped |-> FALSE]]

\* the call record of the initial state: ds1307_init has returned the handle
InitCall(century) ==
    [op |-> "init", arg |-> [b |-> TRUE, c |-> TRUE, century |-> century],
     ret |-> ESP_OK, out |-> NoVal]

\* the k-th valid calendar time handed to ds1307_set_datetime: as k runs
\* over 0..99 every field takes every value of its range (second and minute
\* 0..59, hour 0..23, weekday 0..6, day 1..31, month 0..11, year ys..ys+99)
TmOf(k, ys) ==
    [tm_sec |-> k % 60, tm_min |-> (7 * k) % 60, tm_hour |-> k % 24,
     tm_wday |-> k % 7, tm_mday |-> 1 + (k % 31), tm_mon |-> k % 12,
     tm_year |-> ys + (k % 100)]

\* the bytes tried in every field of a ds1307_data_t: each single bit, none
\* and all of them, and some BCD values
DataBytes == {0, 1, 2, 4, 8, 16, 32, 64, 128, 255, 18, 35, 89, 170}

DataOf(b, h12, pm) ==
    [second |-> b, minute |-> b, hour |-> b, day |-> b, date |-> b,
     month |-> b, year |-> b, hour_12 |-> h12, hour_pm |-> pm]

DataWide == {DataOf(b, h12, pm) : b \in DataBytes, h12 \in 0..1, pm \in 0..1}

-----------------------------------------------------------------------------
(* SpecTime: the time registers under the calendar-time, raw-data and     *)
(* 12/24-hour functions, from every valid register content, with CH set   *)
(* or clear and either hour mode.  The handle is valid and the bus works. *)

\* how many chip images the model starts from, and how many calendar times
\* it sets
NumImages == 100
NumTimes == 100

InitTime ==
    /\ \E k \in 0..(NumImages - 1), ch \in 0..1 : regs = ImageOf(k, ch, 0)
    /\ ram = RamInit
    /\ alive = TRUE
    /\ tm_year_start = YearStart(0)
    /\ call = InitCall(0)
    /\ bus = <<>>
    /\ tasks = NoTasks

NextTime ==
    \/ GetDatetime(TRUE, TRUE, ESP_OK)
    \/ \E k \in 0..(NumTimes - 1) :
         SetDatetime(TRUE, TRUE, TmOf(k, tm_year_start), ESP_OK, ESP_OK)
    \/ GetData(TRUE, TRUE, ESP_OK)
    \/ \E data \in DataWide : SetData(TRUE, TRUE, data, ESP_OK, ESP_OK)
    \/ \E mode \in BOOLEAN : Set12Hour(TRUE, mode, ESP_OK, ESP_OK)

SpecTime == InitTime /\ [][NextTime]_vars

-----------------------------------------------------------------------------
(* SpecFlags: the single-field accessors (halt, output, square-wave       *)
(* enable, rate select, 12/24-hour mode) from every control byte and from *)
(* sampled seconds and hours bytes.  The handle is valid, the bus works.  *)

\* the valid image the registers of SpecFlags start from, but for the one
\* register that is drawn
FlagsBase == ImageOf(15, 0, 0)

\* the seconds and hours bytes drawn beside the valid ones
OddBytes == {0, 63, 64, 127, 128, 140, 191, 255}

\* the number of valid hours bytes the hours register is drawn from
NumHours == 48

\* the square-wave rates: ds1307_rate_select_t
RateSelects ==
    {DS1307_RATE_SELECT_1HZ, DS1307_RATE_SELECT_4096HZ,
     DS1307_RATE_SELECT_8192HZ, DS1307_RATE_SELECT_32768HZ}

InitFlags ==
    /\ \/ \E b \in Byte : regs = [FlagsBase EXCEPT ![CTRL_REG] = b]
       \/ \E b \in OddBytes : regs = [FlagsBase EXCEPT ![SEC_REG] = b]
       \/ \E b \in OddBytes \cup {ValidHour(i % 48) : i \in 0..(NumHours - 1)} :
            regs = [FlagsBase EXCEPT ![HOUR_OFFSET] = b]
    /\ ram = RamInit
    /\ alive = TRUE
    /\ tm_year_start = YearStart(0)
    /\ call = InitCall(0)
    /\ bus = <<>>
    /\ tasks = NoTasks

NextFlags ==
    \/ GetHalt(TRUE, TRUE, ESP_OK)
    \/ \E v \in BOOLEAN : SetHalt(TRUE, v, ESP_OK, ESP_OK)
    \/ GetOutput(TRUE, TRUE, ESP_OK)
    \/ \E v \in BOOLEAN : SetOutput(TRUE, v, ESP_OK, ESP_OK)
    \/ GetSquareWaveEnable(TRUE, TRUE, ESP_OK)
    \/ \E v \in BOOLEAN : SetSquareWaveEnable(TRUE, v, ESP_OK, ESP_OK)
    \/ GetRateSelect(TRUE, TRUE, ESP_OK)
    \/ \E rs \in RateSelects : SetRateSelect(TRUE, rs, ESP_OK, ESP_OK)
    \/ Get12Hour(TRUE, TRUE, ESP_OK)
    \/ \E v \in BOOLEAN : Set12Hour(TRUE, v, ESP_OK, ESP_OK)

SpecFlags == InitFlags /\ [][NextFlags]_vars

-----------------------------------------------------------------------------
(* SpecRam: ds1307_get_ram and ds1307_set_ram over offsets and sizes on   *)
(* both sides of the RAM's end and of the 8-bit wrap-around.              *)

\* the offsets and sizes tried: 40+16 = 56, 50+10 = 60, and sums of 256
\* and more, which wrap to 0.. in 8 bits
RamOffsets == {0, 40, 50, 56, 57, 200, 255}
RamSizes == {0, 10, 16, 17, 56, 57, 206, 216, 255}

\* the buffer handed to ds1307_set_ram for (offset, size): byte i is meant
\* for RAM byte offset + i and differs from what RamInit holds there
RamData(offset, size) == [i \in 1..size |-> U8(100 + offset + i - 1)]

InitRam ==
    /\ regs = FlagsBase
    /\ ram = RamInit
    /\ alive = TRUE
    /\ tm_year_start = YearStart(0)
    /\ call = InitCall(0)
    /\ bus = <<>>
    /\ tasks = NoTasks

NextRam ==
    \/ \E offset \in RamOffsets, size \in RamSizes :
         GetRam(TRUE, TRUE, offset, size, ESP_OK)
    \/ \E offset \in RamOffsets, size \in RamSizes :
         SetRam(TRUE, TRUE, offset, RamData(offset, size), size, ESP_OK)

SpecRam == InitRam /\ [][NextRam]_vars

-----------------------------------------------------------------------------
(* Spec: every public function on one handle, with NULL handles and       *)
(* pointers, failing bus calls and the handle's lifecycle, each function   *)
(* with few argument values.                                              *)

\* the centuries a handle is configured with
Centuries == {-1, 0}

\* the calendar time, the raw data and the rate handed to the setters
SomeTm(ys) == TmOf(23, ys)
SomeData == DataOf(18, 1, 1)
SomeRate == DS1307_RATE_SELECT_8192HZ

\* the RAM ranges read and written: nothing, the last byte, and past it
SomeRamArgs == {<<0, 0>>, <<55, 1>>, <<55, 2>>}

\* the control byte of the chip at power-on: OUT and SQWE clear, rate 3
PowerOnCtrl == CTRL_RS_MASK

\* a call does not look at the outcome of a bus transaction it never
\* issues: with a NULL argument, or for the write after a failed read, one
\* outcome stands for all
Told(h, p, rd, wr) ==
    /\ (h /\ p) \/ (rd = ESP_OK /\ wr = ESP_OK)
    /\ rd = ESP_OK \/ wr = ESP_OK

Init ==
    /\ regs = [FlagsBase EXCEPT ![CTRL_REG] = PowerOnCtrl]
    /\ ram = RamInit
    /\ alive = TRUE
    /\ \E c \in Centuries :
         /\ tm_year_start = YearStart(c)
         /\ call = InitCall(c)
    /\ bus = <<>>
    /\ tasks = NoTasks

Next ==
    \/ \E b \in BOOLEAN, c \in BOOLEAN, mem \in BOOLEAN,
          century \in Centuries, add \in BusOutcomes :
         /\ Told(b /\ c, mem, add, ESP_OK)
         /\ Ds1307Init(b, c, century, mem, add)
    \/ \E h \in BOOLEAN, rm \in BusOutcomes :
         /\ Told(h, TRUE, rm, ESP_OK)
         /\ Ds1307Deinit(h, rm)
    \/ \E h \in BOOLEAN, p \in BOOLEAN, rd \in BusOutcomes :
         /\ Told(h, p, rd, ESP_OK)
         /\ GetDatetime(h, p, rd)
    \/ \E h \in BOOLEAN, p \in BOOLEAN, rd \in BusOutcomes, wr \in BusOutcomes :
         /\ Told(h, p, rd, wr)
         /\ SetDatetime(h, p, SomeTm(tm_year_start), rd, wr)
    \/ \E h \in BOOLEAN, p \in BOOLEAN, rd \in BusOutcomes :
         /\ Told(h, p, rd, ESP_OK)
         /\ GetData(h, p, rd)
    \/ \E h \in BOOLEAN, p \in BOOLEAN, rd \in BusOutcomes, wr \in BusOutcomes :
         /\ Told(h, p, rd, wr)
         /\ SetData(h, p, SomeData, rd, wr)
    \/ \E h \in BOOLEAN, p \in BOOLEAN, rd \in BusOutcomes :
         /\ Told(h, p, rd, ESP_OK)
         /\ Get12Hour(h, p, rd)
    \/ \E h \in BOOLEAN, rd \in BusOutcomes, wr \in BusOutcomes :
         /\ Told(h, TRUE, rd, wr)
         /\ Set12Hour(h, TRUE, rd, wr)
    \/ \E h \in BOOLEAN, p \in BOOLEAN, rd \in BusOutcomes :
         /\ Told(h, p, rd, ESP_OK)
         /\ GetHalt(h, p, rd)
    \/ \E h \in BOOLEAN, rd \in BusOutcomes, wr \in BusOutcomes :
         /\ Told(h, TRUE, rd, wr)
         /\ SetHalt(h, TRUE, rd, wr)
    \/ \E h \in BOOLEAN, p \in BOOLEAN, rd \in BusOutcomes :
         /\ Told(h, p, rd, ESP_OK)
         /\ GetOutput(h, p, rd)
    \/ \E h \in BOOLEAN, rd \in BusOutcomes, wr \in BusOutcomes :
         /\ Told(h, TRUE, rd, wr)
         /\ SetOutput(h, FALSE, rd, wr)
    \/ \E h \in BOOLEAN, p \in BOOLEAN, rd \in BusOutcomes :
         /\ Told(h, p, rd, ESP_OK)
         /\ GetSquareWaveEnable(h, p, rd)
    \/ \E h \in BOOLEAN, rd \in BusOutcomes, wr \in BusOutcomes :
         /\ Told(h, TRUE, rd, wr)
         /\ SetSquareWaveEnable(h, TRUE, rd, wr)
    \/ \E h \in BOOLEAN, p \in BOOLEAN, rd \in BusOutcomes :
         /\ Told(h, p, rd, ESP_OK)
         /\ GetRateSelect(h, p, rd)
    \/ \E h \in BOOLEAN, rd \in BusOutcomes, wr \in BusOutcomes :
         /\ Told(h, TRUE, rd, wr)
         /\ SetRateSelect(h, SomeRate, rd, wr)
    \/ \E h \in BOOLEAN, p \in BOOLEAN, a \in SomeRamArgs, rd \in BusOutcomes :
         /\ Told(h, p, rd, ESP_OK)
         /\ GetRam(h, p, a[1], a[2], rd)
    \/ \E h \in BOOLEAN, p \in BOOLEAN, a \in SomeRamArgs, wr \in BusOutcomes :
         /\ Told(h, p, wr, ESP_OK)
         /\ SetRam(h, p, a[1], RamData(a[1], a[2]), a[2], wr)

Spec == Init /\ [][Next]_vars

-----------------------------------------------------------------------------
(* What the registers mean, stated from the register map and not from the *)
(* driver's code.                                                         *)

\* the number a BCD byte stands for
UnBcd(b) == 10 * (b \div 16) + (b % 16)

\* b is the BCD byte of a number in lo..hi
IsBcd(b, lo, hi) ==
    /\ b % 16 <= 9
    /\ b \div 16 <= 9
    /\ UnBcd(b) >= lo
    /\ UnBcd(b) <= hi

ChBit(r) == r[SEC_REG] \div 128
ModeBit(r) == (r[HOUR_OFFSET] \div 64) % 2
PmBit(r) == (r[HOUR_OFFSET] \div 32) % 2

\* the hours byte b holds a valid hour: 00..23, or 01..12 with AM/PM
IsValidHour(b) ==
    IF (b \div 64) % 2 = 1 THEN b < 128 /\ IsBcd(b % 32, 1, 12)
                           ELSE IsBcd(b, 0, 23)

\* the hour of the day 0..23 a valid hours byte stands for
HourOfDay(b) ==
    IF (b \div 64) % 2 = 1
    THEN (UnBcd(b % 32) % 12) + 12 * ((b \div 32) % 2)
    ELSE UnBcd(b)

\* every time register of r holds a valid value
IsValidImage(r) ==
    /\ IsBcd(r[0] % 128, 0, 59)
    /\ IsBcd(r[1], 0, 59)
    /\ IsValidHour(r[2])
    /\ r[3] >= 1 /\ r[3] <= 7
    /\ IsBcd(r[4], 1, 31)
    /\ IsBcd(r[5], 1, 12)
    /\ IsBcd(r[6], 0, 99)

\* the Calendar Time view of a valid image: month and weekday 0-based
CalendarView(r, year_base) ==
    [tm_sec  |-> UnBcd(r[0] % 128),
     tm_min  |-> UnBcd(r[1]),
     tm_hour |-> HourOfDay(r[2]),
     tm_wday |-> r[3] - 1,
     tm_mday |-> UnBcd(r[4]),
     tm_mon  |-> UnBcd(r[5]) - 1,
     tm_year |-> year_base + UnBcd(r[6])]

\* what ds1307_get_datetime would return on the registers r
DatetimeOf(r) == DecodeTm([i \in 0..(BUF_SIZE - 1) |-> r[i]], tm_year_start)

\* the last call was `op` and returned ESP_OK
Done(op) == call.op = op /\ call.ret = ESP_OK

-----------------------------------------------------------------------------
(* Claims about the time registers, checked under SpecTime.               *)

\* C1: a successful ds1307_set_datetime of a valid calendar time followed
\* directly by a successful ds1307_get_datetime returns every field as it
\* was set (second, minute, hour, weekday, day, month, year).
C1_SetGetRoundTrip ==
    [][(Done("set_datetime") /\ Done("get_datetime")')
        => call'.out = call.arg.tm]_vars

\* C2: ds1307_set_datetime changes neither the CH bit nor the 12/24 mode
\* bit, whatever the registers held, and leaves the control register and
\* the RAM alone.
C2_SetDatetimeKeepsChAndMode ==
    [][(call'.op = "set_datetime")
        => /\ ChBit(regs') = ChBit(regs)
           /\ ModeBit(regs') = ModeBit(regs)
           /\ regs'[CTRL_REG] = regs[CTRL_REG]
           /\ ram' = ram]_vars

\* C2 witness: a calendar time with hour 23 was set with CH set and the
\* chip in 12-hour mode.
C2_Witness ==
    /\ Done("set_datetime")
    /\ call.arg.tm.tm_hour = 23
    /\ ChBit(regs) = 1
    /\ ModeBit(regs) = 1

\* C3: on a valid hours register ds1307_set_12_hour keeps the hour of the
\* day that ds1307_get_datetime returns (15:00 becomes 3 PM), switching
\* back would restore the hours byte it found, and it writes no register
\* but the hours register.
C3_ModeSwitchKeepsHour ==
    [][(Done("set_12_hour")' /\ IsValidHour(regs[HOUR_OFFSET]))
        => /\ DatetimeOf(regs').tm_hour = DatetimeOf(regs).tm_hour
           /\ DatetimeOf(regs').tm_hour = HourOfDay(regs[HOUR_OFFSET])
           /\ IsValidHour(regs'[HOUR_OFFSET])
           /\ HourOfDay(regs'[HOUR_OFFSET]) = HourOfDay(regs[HOUR_OFFSET])
           /\ (call'.arg.v /\ regs[HOUR_OFFSET] = Bcd(15))
                => regs'[HOUR_OFFSET] = 64 + 32 + 3
           /\ ModeBit(regs') # ModeBit(regs)
                => ConvertHour(regs'[HOUR_OFFSET], ~call'.arg.v)
                     = regs[HOUR_OFFSET]
           /\ \A a \in 0..7 : a # HOUR_OFFSET => regs'[a] = regs[a]
           /\ ram' = ram
           /\ \A i \in 1..Len(bus') :
                bus'[i].reg = HOUR_OFFSET /\ bus'[i].len = 1]_vars

\* C3 witness: 15:00 in 24-hour mode was switched to 12-hour mode, and
\* the hours register now reads 3 PM.
C3_Witness ==
    /\ Done("set_12_hour")
    /\ call.arg.v = TRUE
    /\ Len(bus) = 2
    /\ regs[HOUR_OFFSET] = 64 + 32 + 3

\* C9: on an image of valid BCD values ds1307_get_datetime returns the
\* Calendar Time view: seconds without CH, minute, hour 0..23 by the mode
\* bit, day of month, weekday and month 0-based, year_base + year.
C9_GetDatetimeIsCalendarView ==
    (Done("get_datetime") /\ IsValidImage(regs))
        => call.out = CalendarView(regs, tm_year_start)

\* the fields of a ds1307_data_t masked to their legal widths
MaskedData(d) ==
    [second  |-> d.second % 128,
     minute  |-> d.minute % 128,
     hour    |-> IF d.hour_12 = 1 THEN d.hour % 32 ELSE d.hour % 64,
     day     |-> d.day % 8,
     date    |-> d.date % 64,
     month   |-> d.month % 32,
     year    |-> d.year,
     hour_12 |-> d.hour_12,
     hour_pm |-> IF d.hour_12 = 1 THEN d.hour_pm ELSE 0]

\* C10: ds1307_set_data keeps the CH bit and writes the seven time
\* registers from the raw data masked to their widths, with the 12-hour and
\* AM/PM flags when hour_12 is set; a ds1307_get_data that follows returns
\* exactly the masked fields and flags.
C10_SetDataMasksFields ==
    [][/\ Done("set_data")' =>
            LET m == MaskedData(call'.arg.data)
            IN  /\ regs'[0] = 128 * ChBit(regs) + m.second
                /\ regs'[1] = m.minute
                /\ regs'[2] = 64 * m.hour_12 + 32 * m.hour_pm + m.hour
                /\ regs'[3] = m.day
                /\ regs'[4] = m.date
                /\ regs'[5] = m.month
                /\ regs'[6] = m.year
                /\ regs'[CTRL_REG] = regs[CTRL_REG]
                /\ ram' = ram
       /\ (Done("set_data") /\ Done("get_data")')
            => call'.out = MaskedData(call.arg.data)]_vars

\* C10 witness: ds1307_get_data returns fields that only a ds1307_set_data
\* of all-ones bytes in 12-hour mode leaves, with CH still set.
C10_Witness ==
    /\ Done("get_data")
    /\ call.out.second = 127 /\ call.out.minute = 127
    /\ call.out.hour = 31 /\ call.out.hour_12 = 1 /\ call.out.hour_pm = 1
    /\ call.out.day = 7 /\ call.out.date = 63 /\ call.out.month = 31
    /\ call.out.year = 255
    /\ ChBit(regs) = 1

-----------------------------------------------------------------------------
(* Claims about the single-field accessors, checked under SpecFlags.      *)

\* 1 for TRUE, 0 for FALSE
B2N(v) == IF v THEN 1 ELSE 0

OutBit(r) == r[CTRL_REG] \div 128
SqweBit(r) == (r[CTRL_REG] \div 16) % 2
RsBits(r) == r[CTRL_REG] % 4

FlagSetters ==
    {"set_halt", "set_output", "set_square_wave_enable", "set_rate_select",
     "set_12_hour"}

\* the register a single-field setter works on
FlagReg(op) ==
    CASE op = "set_halt" -> SEC_REG
      [] op = "set_12_hour" -> HOUR_OFFSET
      [] OTHER -> CTRL_REG

\* the value of the field of setter `op` that the registers r hold
FieldOf(op, r) ==
    CASE op = "set_halt" -> ChBit(r) = 1
      [] op = "set_output" -> OutBit(r) = 1
      [] op = "set_square_wave_enable" -> SqweBit(r) = 1
      [] op = "set_rate_select" -> RsBits(r)
      [] op = "set_12_hour" -> ModeBit(r) = 1

\* C4: a single-field setter called with the value the chip already holds
\* issues exactly one bus read and no bus write; a second set_halt(true)
\* right after a successful set_halt(true) issues no write.
C4_SetterSkipsWriteWhenHeld ==
    [][/\ (call'.op \in FlagSetters
             /\ call'.arg.h
             /\ FieldOf(call'.op, regs) = call'.arg.v)
          => /\ bus' = <<Rd(FlagReg(call'.op), 1, ESP_OK)>>
             /\ call'.ret = ESP_OK
             /\ regs' = regs
       /\ (Done("set_halt") /\ call.arg.v /\ Done("set_halt")' /\ call'.arg.v)
          => \A i \in 1..Len(bus') : bus'[i].kind # "write"]_vars

\* C4 witness: set_halt(true) returned after a single read, CH being set.
C4_Witness ==
    /\ Done("set_halt")
    /\ call.arg.v
    /\ ChBit(regs) = 1
    /\ bus = <<Rd(SEC_REG, 1, ESP_OK)>>

\* C5: ds1307_set_rate_select changes bits 1-0 of the control register
\* only, ds1307_set_output bit 7 only, ds1307_set_square_wave_enable bit 4
\* only, ds1307_set_halt bit 7 of the seconds register only; every other
\* register and the RAM stay as they were.
C5_SetterChangesOnlyItsBits ==
    [][(call'.op \in FlagSetters \ {"set_12_hour"})
        => /\ \A a \in 0..7 : a # FlagReg(call'.op) => regs'[a] = regs[a]
           /\ ram' = ram
           /\ call'.op = "set_rate_select"
                => regs'[CTRL_REG] \div 4 = regs[CTRL_REG] \div 4
           /\ call'.op = "set_output"
                => regs'[CTRL_REG] % 128 = regs[CTRL_REG] % 128
           /\ call'.op = "set_square_wave_enable"
                => /\ regs'[CTRL_REG] % 16 = regs[CTRL_REG] % 16
                   /\ regs'[CTRL_REG] \div 32 = regs[CTRL_REG] \div 32
           /\ call'.op = "set_halt"
                => regs'[SEC_REG] % 128 = regs[SEC_REG] % 128]_vars

\* C5 witness: the rate was written as 2 into a control byte whose other
\* bits, OUT and SQWE among them, are all set.
C5_Witness ==
    /\ Done("set_rate_select")
    /\ Len(bus) = 2
    /\ regs[CTRL_REG] = 254

\* the getter that reads back what a setter sets
GetterOf(op) ==
    CASE op = "set_halt" -> "get_halt"
      [] op = "set_output" -> "get_output"
      [] op = "set_square_wave_enable" -> "get_square_wave_enable"
      [] op = "set_rate_select" -> "get_rate_select"
      [] op = "set_12_hour" -> "get_12_hour"

\* C8: a getter that directly follows its successful setter returns the
\* value that was set, whatever the registers held before.
C8_GetterReturnsWhatWasSet ==
    [][(call.op \in FlagSetters /\ call.ret = ESP_OK
          /\ call'.op = GetterOf(call.op) /\ call'.ret = ESP_OK)
        => call'.out = call.arg.v]_vars

\* C8 witness: ds1307_get_halt returns true on an image that started with
\* CH clear, so ds1307_set_halt(true) has written it.
C8_Witness ==
    /\ Done("get_halt")
    /\ call.out = TRUE
    /\ regs[CTRL_REG] = 255

-----------------------------------------------------------------------------
(* Claims about the RAM functions, checked under SpecRam.                 *)

\* C6: with a handle and a buffer, ds1307_get_ram and ds1307_set_ram fail
\* with ESP_ERR_INVALID_ARG exactly when offset + size > 56, the sum taken
\* without 8-bit wrap-around; they then issue no bus transaction and leave
\* the chip as it was; otherwise the check passes and the transaction is
\* issued.
C6_RamBoundCheck ==
    [][(call'.op \in {"get_ram", "set_ram"} /\ call'.arg.h /\ call'.arg.p)
        => LET over == call'.arg.offset + call'.arg.size > 56
           IN  /\ (call'.ret = ESP_ERR_INVALID_ARG) <=> over
               /\ over => (bus' = <<>> /\ regs' = regs /\ ram' = ram)
               /\ ~over => (Len(bus') = 1
                            /\ bus'[1].reg = 8 + call'.arg.offset
                            /\ bus'[1].len = call'.arg.size)]_vars

\* C6 witness: offset 200 with size 56, whose sum is 0 in 8 bits, was
\* refused.
C6_Witness ==
    /\ call.op = "set_ram"
    /\ call.arg.offset = 200 /\ call.arg.size = 56
    /\ call.ret = ESP_ERR_INVALID_ARG
    /\ bus = <<>>

-----------------------------------------------------------------------------
(* Claims about argument checking, checked under Spec.                    *)

\* the functions that take a handle
HandleOps ==
    {"deinit", "get_datetime", "set_datetime", "get_data", "set_data",
     "get_12_hour", "set_12_hour", "get_halt", "set_halt", "get_output",
     "set_output", "get_square_wave_enable", "set_square_wave_enable",
     "get_rate_select", "set_rate_select", "get_ram", "set_ram"}

\* the last call was given a NULL handle, or a NULL pointer where it takes
\* one
NullArg ==
    /\ call.op \in HandleOps
    /\ \/ ~call.arg.h
       \/ ("p" \in DOMAIN call.arg /\ ~call.arg.p)

\* C7: every public function called with a NULL handle or a NULL pointer
\* fails with ESP_ERR_INVALID_ARG and issues no bus transaction.
C7_NullArgIsInvalidArg ==
    NullArg => (call.ret = ESP_ERR_INVALID_ARG /\ bus = <<>>)

-----------------------------------------------------------------------------
(* SpecYear: the handle's year base and the year register.  Handles are   *)
(* created for centuries on both sides of 0 and of 20, freed and created  *)
(* again; calendar times of negative, small and four-digit years are set  *)
(* and read back.  The bus works.                                         *)

\* the centuries of ds1307_config_t the handles are created with
YearCenturies == {0 - 2, 0 - 1, 0, 1, 19, 20, 21, 22}

\* the years set run over -NumYears..NumYears, and a few four-digit years
NumYears == 125
Years == ((0 - NumYears)..NumYears) \cup {1999, 2000, 2025}

\* a valid calendar time of the year y
TmOfYear(y) == [TmOf(23, 0) EXCEPT !.tm_year = y]

InitYear ==
    /\ regs = FlagsBase
    /\ ram = RamInit
    /\ alive = TRUE
    /\ \E c \in YearCenturies :
         /\ tm_year_start = YearStart(c)
         /\ call = InitCall(c)
    /\ bus = <<>>
    /\ tasks = NoTasks

NextYear ==
    \/ \E c \in YearCenturies : Ds1307Init(TRUE, TRUE, c, TRUE, ESP_OK)
    \/ Ds1307Deinit(TRUE, ESP_OK)
    \/ GetDatetime(TRUE, TRUE, ESP_OK)
    \/ \E y \in Years : SetDatetime(TRUE, TRUE, TmOfYear(y), ESP_OK, ESP_OK)

SpecYear == InitYear /\ [][NextYear]_vars

-----------------------------------------------------------------------------
(* Claims about the year, checked under SpecYear.                         *)

\* the year base of a configured century, from the header's description:
\* 0 stands for 21, a negative century counts one up
YearBaseOf(century) ==
    CASE century = 0 -> 100
      [] century < 0 -> (century + 1 - 20) * 100
      [] OTHER -> (century - 20) * 100

\* C11: ds1307_init sets year_base from the century (0 as 21, a negative
\* century plus one, then (century - 20) * 100, so 0 and 21 give 100); no
\* later call on the handle changes year_base; every ds1307_get_datetime
\* returns year_base + the number in the year register.
C11_YearBaseFixedByInit ==
    [][/\ Done("init")'
            => /\ tm_year_start' = YearBaseOf(call'.arg.century)
               /\ call'.arg.century \in {0, 21} => tm_year_start' = 100
       /\ call'.op # "init" => tm_year_start' = tm_year_start
       /\ Done("get_datetime")'
            => /\ call'.out.tm_year = tm_year_start + UnBcd(regs[YEAR_OFFSET])
               /\ call.op = "init"
                    => call'.out.tm_year
                         = YearBaseOf(call.arg.century)
                           + UnBcd(regs[YEAR_OFFSET])]_vars

\* C11 witness: a handle of century -1, whose year base is -2000, returns
\* the year -1901 from a year register holding 99.
C11_Witness ==
    /\ Done("get_datetime")
    /\ tm_year_start = 0 - 2000
    /\ regs[YEAR_OFFSET] = 153
    /\ call.out.tm_year = 0 - 1901

\* C12: ds1307_set_datetime stores the BCD byte of the year modulo 100,
\* taken into 0..99 (-1 stores 99, 125 stores 25); the byte is valid BCD
\* 00..99 and is the same under every year base.
C12_YearStoredModulo100 ==
    [][Done("set_datetime")'
        => LET y == call'.arg.tm.tm_year
           IN  /\ regs'[YEAR_OFFSET] = Bcd(y % 100)
               /\ IsBcd(regs'[YEAR_OFFSET], 0, 99)
               /\ y = 0 - 1 => regs'[YEAR_OFFSET] = 153
               /\ y = 125 => regs'[YEAR_OFFSET] = 37]_vars

\* C12 witness: the year -1 was stored as 99 through a handle whose year
\* base is not 100.
C12_Witness ==
    /\ Done("set_datetime")
    /\ call.arg.tm.tm_year = 0 - 1
    /\ regs[YEAR_OFFSET] = 153
    /\ tm_year_start = 200

-----------------------------------------------------------------------------
(* Claims about the bus transactions of a call, checked under Spec.       *)

Getters ==
    {"get_datetime", "get_data", "get_12_hour", "get_halt", "get_output",
     "get_square_wave_enable", "get_rate_select", "get_ram"}

\* the setters that read before they write
ReadWriteSetters == FlagSetters \cup {"set_datetime", "set_data"}

\* the last call passed its argument checks: no NULL handle or pointer,
\* and for the RAM functions offset + size within the RAM
PassedChecks ==
    /\ call.op \in Getters \cup ReadWriteSetters \cup {"set_ram"}
    /\ ~NullArg
    /\ call.op \in {"get_ram", "set_ram"}
         => call.arg.offset + call.arg.size <= DS1307_RAM_SIZE

\* C13: a call that passes its argument checks issues one or two bus
\* transactions in a fixed order: a getter one read and no write; a setter
\* of the time, the raw data or a single field one read, then at most one
\* write; ds1307_set_ram one write.  A write follows a successful read
\* only: when the read fails the call returns the error of the read, has
\* written nothing and left the chip as it was.  No transaction is issued
\* twice.
C13_ReadThenAtMostOneWrite ==
    [][PassedChecks'
        => /\ Len(bus') \in {1, 2}
           /\ call'.op \in Getters
                => Len(bus') = 1 /\ bus'[1].kind = "read"
           /\ call'.op \in ReadWriteSetters
                => /\ bus'[1].kind = "read"
                   /\ Len(bus') = 2
                        => bus'[2].kind = "write" /\ bus'[1].res = ESP_OK
           /\ call'.op = "set_ram"
                => Len(bus') = 1 /\ bus'[1].kind = "write"
           /\ (bus'[1].kind = "read" /\ bus'[1].res # ESP_OK)
                => /\ call'.ret = bus'[1].res
                   /\ Len(bus') = 1
                   /\ regs' = regs
                   /\ ram' = ram
           /\ call'.ret = bus'[Len(bus')].res]_vars

\* C13 witness: ds1307_set_datetime returned the error of its read, the
\* only transaction it issued.
C13_Witness ==
    /\ call.op = "set_datetime"
    /\ PassedChecks
    /\ call.ret \in BusErrors
    /\ Len(bus) = 1
    /\ bus[1].kind = "read"
    /\ bus[1].res = call.ret

-----------------------------------------------------------------------------
(* Claims about the 12-hour codec, checked under SpecTime, where          *)
(* ds1307_set_datetime applies to_12_hour to every hour 0..23 on a chip   *)
(* in 12-hour mode and from_12_hour decodes the byte written.             *)

\* C14: for every hour h in 0..23, from_12_hour(to_12_hour(h)) = h, and
\* to_12_hour(h) has the 12-hour bit set, a BCD hour 01..12 in its low five
\* bits and the PM bit set exactly when h >= 12 (0 is 12 AM, 12 is 12 PM).
C14_TwelveHourCodecInverse ==
    [][(Done("set_datetime")' /\ ModeBit(regs) = 1)
        => LET h == call'.arg.tm.tm_hour
               b == regs'[HOUR_OFFSET]
           IN  /\ h \in 0..23
               /\ b = to_12_hour(h)
               /\ from_12_hour(b) = h
               /\ b < 128
               /\ ModeBit(regs') = 1
               /\ IsBcd(b % 32, 1, 12)
               /\ PmBit(regs') = (IF h >= 12 THEN 1 ELSE 0)
               /\ h = 0 => b = 64 + 18
               /\ h = 12 => b = 64 + 32 + 18
               /\ DatetimeOf(regs').tm_hour = h]_vars

\* C14 witness: midnight was set on a chip in 12-hour mode and is stored
\* as 12 AM.
C14_Witness ==
    /\ Done("set_datetime")
    /\ call.arg.tm.tm_hour = 0
    /\ regs[HOUR_OFFSET] = 64 + 18

-----------------------------------------------------------------------------
(* SpecTasks: two callers use one handle with no lock between them.  A    *)
(* setter is two bus transactions, and the driver holds nothing across    *)
(* them, so a call is two steps here: its read, then its write, and the   *)
(* steps of the two callers interleave freely.  Each caller makes one     *)
(* call.  The bus works.                                                  *)

\* the register, mask and value a single-field setter hands to set_reg
TaskReg(op) == IF op = "set_halt" THEN SEC_REG ELSE CTRL_REG

TaskMask(op) ==
    CASE op = "set_halt" -> Not8(SEC_CH_BIT)
      [] op = "set_output" -> Not8(CTRL_OUT_BIT)
      [] op = "set_square_wave_enable" -> Not8(CTRL_SQWE_BIT)
      [] op = "set_rate_select" -> Not8(CTRL_RS_MASK)

TaskValue(op, v) ==
    CASE op = "set_halt" -> IF v THEN SEC_CH_BIT ELSE 0
      [] op = "set_output" -> IF v THEN CTRL_OUT_BIT ELSE 0
      [] op = "set_square_wave_enable" -> IF v THEN CTRL_SQWE_BIT ELSE 0
      [] op = "set_rate_select" -> And8(v, CTRL_RS_MASK)

\* caller c is between the entry and the return of its call
InFlight(c) == tasks[c].pc \in {"read", "write"}

\* caller c enters the setter op with the argument v: the handle is not
\* NULL, the read is the next step
TaskBegin(c, op, v) ==
    LET over == \E d \in Callers \ {c} : InFlight(d)
    IN  /\ alive
        /\ tasks[c].pc = "idle"
        /\ tasks' = [d \in Callers |->
                        IF d = c
                        THEN [pc |-> "read", op |-> op, v |-> v,
                              overlapped |-> over]
                        ELSE IF InFlight(d)
                        THEN [tasks[d] EXCEPT !.overlapped = TRUE]
                        ELSE tasks[d]]
        /\ UNCHANGED <<regs, ram, alive, tm_year_start, call, bus>>

\* the i2c_master_transmit_receive of caller c's call returns: set_reg
\* returns ESP_OK when the field holds the value, and else goes on to the
\* write with the byte it read; ds1307_set_datetime goes on with the three
\* bytes it read
TaskRead(c) ==
    LET t == tasks[c]
    IN  /\ t.pc = "read"
        /\ IF t.op = "set_datetime"
           THEN tasks' = [tasks EXCEPT ![c] =
                    [pc |-> "write", op |-> t.op, v |-> t.v,
                     overlapped |-> t.overlapped,
                     buf |-> BusRead(SEC_REG, BUF_HOUR_SIZE)]]
           ELSE LET origin == BusRead(TaskReg(t.op), 1)[0]
                IN  IF SetRegSkips(origin, TaskMask(t.op),
                                   TaskValue(t.op, t.v))
                    THEN tasks' = [tasks EXCEPT ![c] =
                             [pc |-> "done", op |-> t.op, v |-> t.v,
                              overlapped |-> t.overlapped, ret |-> ESP_OK]]
                    ELSE tasks' = [tasks EXCEPT ![c] =
                             [pc |-> "write", op |-> t.op, v |-> t.v,
                              overlapped |-> t.overlapped, buf |-> origin]]
        /\ UNCHANGED <<regs, ram, alive, tm_year_start, call, bus>>

\* the i2c_master_transmit of caller c's call returns: the bytes, made
\* from what the call read, are in the chip and the call returns ESP_OK
TaskWrite(c) ==
    LET t == tasks[c]
        reg == IF t.op = "set_datetime" THEN SEC_REG ELSE TaskReg(t.op)
        bytes == IF t.op = "set_datetime"
                 THEN EncodeTm(t.v, t.buf)
                 ELSE <<SetRegByte(t.buf, TaskMask(t.op),
                                   TaskValue(t.op, t.v))>>
    IN  /\ t.pc = "write"
        /\ regs' = RegsAfterWrite(reg, bytes)
        /\ ram' = RamAfterWrite(reg, bytes)
        /\ tasks' = [tasks EXCEPT ![c] =
                        [pc |-> "done", op |-> t.op, v |-> t.v,
                         overlapped |-> t.overlapped, ret |-> ESP_OK]]
        /\ UNCHANGED <<alive, tm_year_start, call, bus>>

\* the control bytes the chip starts with: all clear, the power-on value,
\* and OUT, SQWE and a rate set
TaskCtrls == {0, PowerOnCtrl, CTRL_OUT_BIT + CTRL_SQWE_BIT + 1}

\* the calendar times a caller sets
TaskTimes == {TmOf(23, YearStart(0)), TmOf(42, YearStart(0))}

InitTasks ==
    /\ \E ctrl \in TaskCtrls, ch \in 0..1 : regs = ImageOf(15, ch, ctrl)
    /\ ram = RamInit
    /\ alive = TRUE
    /\ tm_year_start = YearStart(0)
    /\ call = InitCall(0)
    /\ bus = <<>>
    /\ tasks = NoTasks

NextTasks ==
    \/ \E c \in Callers, v \in BOOLEAN : TaskBegin(c, "set_halt", v)
    \/ \E c \in Callers, v \in BOOLEAN : TaskBegin(c, "set_output", v)
    \/ \E c \in Callers, v \in BOOLEAN :
         TaskBegin(c, "set_square_wave_enable", v)
    \/ \E c \in Callers, rs \in RateSelects :
         TaskBegin(c, "set_rate_select", rs)
    \/ \E c \in Callers, tm \in TaskTimes : TaskBegin(c, "set_datetime", tm)
    \/ \E c \in Callers : TaskRead(c)
    \/ \E c \in Callers : TaskWrite(c)

SpecTasks == InitTasks /\ [][NextTasks]_vars

-----------------------------------------------------------------------------
(* Claims about concurrent callers, checked under SpecTasks.              *)

\* both callers have returned from their calls with ESP_OK
BothReturned ==
    \A c \in Callers : tasks[c].pc = "done" /\ tasks[c].ret = ESP_OK

\* the registers a setter writes
TaskRegs(op) == IF op = "set_datetime" THEN 0..YEAR_OFFSET ELSE {TaskReg(op)}

\* the registers r hold what caller c's call has set: the field of a
\* single-field setter, or the time of ds1307_set_datetime (in 24-hour
\* mode, as the chip of SpecTasks is)
TaskHeld(c, r) ==
    LET t == tasks[c]
    IN  IF t.op = "set_datetime"
        THEN /\ r[SEC_REG] % 128 = Bcd(t.v.tm_sec)
             /\ r[MIN_OFFSET] = Bcd(t.v.tm_min)
             /\ r[HOUR_OFFSET] = Bcd(t.v.tm_hour)
             /\ r[DATE_OFFSET] = Bcd(t.v.tm_mday)
             /\ r[YEAR_OFFSET] = Bcd(t.v.tm_year % 100)
        ELSE FieldOf(t.op, r) = t.v

\* C15: when two callers have set different fields and both calls have
\* returned ESP_OK, the registers hold both updates if the calls did not
\* overlap; an update is missing only after calls on the same register
\* that overlapped (the witness is such a lost update).
C15_SerializedSettersBothHold ==
    (BothReturned /\ tasks[1].op # tasks[2].op)
        => \/ \A c \in Callers : TaskHeld(c, regs)
           \/ /\ \A c \in Callers : tasks[c].overlapped
              /\ TaskRegs(tasks[1].op) \cap TaskRegs(tasks[2].op) # {}

\* C15 witness: set_output(true) and set_rate_select both returned ESP_OK
\* and the rate is in the control register, but OUT is clear: the update
\* of set_output is lost.
C15_Witness ==
    /\ BothReturned
    /\ tasks[1].op = "set_output" /\ tasks[1].v = TRUE
    /\ tasks[2].op = "set_rate_select"
    /\ RsBits(regs) = tasks[2].v
    /\ OutBit(regs) = 0

-----------------------------------------------------------------------------
(* SpecFrame: the RAM functions beside the time and flag setters, on      *)
(* ranges that end at the last RAM byte from offsets across the RAM, on   *)
(* empty ranges and on ranges inside the RAM.  The bus works.             *)

\* the offsets from which the RAM is written to its end
FrameOffsets == {0, 1, 28, 40, 55, 56}

\* <<offset, size>> of the RAM calls: to the end of the RAM from each
\* offset, the first byte, ten bytes in the middle, and nothing
FrameArgs ==
    {<<o, DS1307_RAM_SIZE - o>> : o \in FrameOffsets}
        \cup {<<0, 1>>, <<20, 10>>, <<0, 0>>, <<30, 0>>}

InitFrame ==
    /\ regs = [FlagsBase EXCEPT ![CTRL_REG] = PowerOnCtrl]
    /\ ram = RamInit
    /\ alive = TRUE
    /\ tm_year_start = YearStart(0)
    /\ call = InitCall(0)
    /\ bus = <<>>
    /\ tasks = NoTasks

NextFrame ==
    \/ \E a \in FrameArgs : GetRam(TRUE, TRUE, a[1], a[2], ESP_OK)
    \/ \E a \in FrameArgs :
         SetRam(TRUE, TRUE, a[1], RamData(a[1], a[2]), a[2], ESP_OK)
    \/ SetDatetime(TRUE, TRUE, SomeTm(tm_year_start), ESP_OK, ESP_OK)
    \/ SetData(TRUE, TRUE, SomeData, ESP_OK, ESP_OK)
    \/ Set12Hour(TRUE, TRUE, ESP_OK, ESP_OK)
    \/ SetHalt(TRUE, TRUE, ESP_OK, ESP_OK)
    \/ SetOutput(TRUE, TRUE, ESP_OK, ESP_OK)
    \/ SetSquareWaveEnable(TRUE, TRUE, ESP_OK, ESP_OK)
    \/ SetRateSelect(TRUE, SomeRate, ESP_OK, ESP_OK)

SpecFrame == InitFrame /\ [][NextFrame]_vars

-----------------------------------------------------------------------------
(* Claims about what the RAM functions change, checked under SpecFrame.   *)

\* C16: a successful ds1307_set_ram(offset, data, size) puts data[i] in
\* RAM byte offset + i for i < size, through one write at chip address
\* 8 + offset that ends at 0x3F at most, and changes no other RAM byte and
\* no register 0..7; a ds1307_get_ram of the same offset and size that
\* follows returns the bytes written; no time or flag setter changes a RAM
\* byte.
C16_SetRamWritesItsRangeOnly ==
    [][/\ Done("set_ram")'
            => LET offset == call'.arg.offset
                   size == call'.arg.size
               IN  /\ offset + size <= 56
                   /\ \A a \in 0..55 :
                        ram'[a] = IF a >= offset /\ a < offset + size
                                  THEN call'.arg.data[a - offset + 1]
                                  ELSE ram[a]
                   /\ regs' = regs
                   /\ bus' = <<Wr(8 + offset, size, ESP_OK)>>
                   /\ 8 + offset + size - 1 <= 63
       /\ (/\ Done("set_ram") /\ Done("get_ram")'
           /\ call'.arg.offset = call.arg.offset
           /\ call'.arg.size = call.arg.size)
            => \A i \in 1..call.arg.size : call'.out[i] = call.arg.data[i]
       /\ Done("get_ram")'
            => /\ DOMAIN call'.out = 1..call'.arg.size
               /\ \A i \in 1..call'.arg.size :
                    call'.out[i] = ram[call'.arg.offset + i - 1]
               /\ ram' = ram /\ regs' = regs
       /\ call'.op \in ReadWriteSetters => ram' = ram]_vars

\* C16 witness: ds1307_get_ram(20, 10) returns the ten bytes a
\* ds1307_set_ram(20, 10) wrote, with the bytes on both sides of the range
\* and the last RAM byte as they started.
C16_Witness ==
    /\ Done("get_ram")
    /\ call.arg.offset = 20 /\ call.arg.size = 10
    /\ call.out = RamData(20, 10)
    /\ ram[19] = 19 /\ ram[30] = 30 /\ ram[55] = 55

=============================================================================
